---- MODULE Spec2Model ----
(***************************************************************************)
(* Query resolver of the Ask MTO service (ask-mto-genai/app/main.py) with  *)
(* its collaborators: the Cosmos DB session store (cosmosdb.py), the       *)
(* Azure monitor wrapper (monitoring.py) and the Semantic Kernel helpers   *)
(* (semantic_kernel.py).                                                   *)
(*                                                                         *)
(* Text is a sequence of one-character strings, so that lower(), strip(),  *)
(* the `in` substring test and re.sub are computed character by character. *)
(*                                                                         *)
(* The handlers are `async def` functions that call the chains, the store  *)
(* and the logger synchronously and await only coroutines that never       *)
(* suspend, so on the event loop one handler runs to its end before the    *)
(* next one starts.  Each handler is cut into the steps between its        *)
(* external calls; Spec starts a request only when no other is in flight.  *)
(*                                                                         *)
(* SpecFair is Spec from a full index with weak fairness on the steps of   *)
(* each handler: every external call comes back.  SpecConcurrent takes up  *)
(* a request while others wait on an external call, as a runtime does that *)
(* suspends a handler at its calls; its calls all return normally and the  *)
(* session store is unavailable.                                           *)
(*                                                                         *)
(* SpecIngest is the offline index rebuild                                 *)
(* (apps/backend/scripts/rebuild_vectorstore_ocr_tfidf.py): main() cut at  *)
(* its calls into pdf2image, pytesseract, nltk, sklearn, langchain and     *)
(* FAISS, whose results are drawn from small sets.                         *)
(*                                                                         *)
(* SpecAnalyze is one call of analyze_with_tfidf on a text, with the       *)
(* cluster count and the k-means labels drawn from small sets.             *)
(*                                                                         *)
(* SpecLoad is RAGComponents.get_instance called from several threads,     *)
(* cut at every read and write of the class attributes and the lock.       *)
(***************************************************************************)
EXTENDS Integers, Sequences, FiniteSets, TLC

\* ---------------------------------------------------------------- bounds
MaxRequests == 2

MaxChunks == 4

MaxHandlers == 2

\* pages of the PDF the ingestion run renders
MaxPages == 3

\* chunks the text splitter produces in one run
MaxSplit == 3

\* threads that call RAGComponents.get_instance
MaxThreads == 2

\* get_instance calls one thread makes
MaxCalls == 2

\* ------------------------------------------------------------ characters
UpperCase == <<"A","B","C","D","E","F","G","H","I","J","K","L","M","N","O","P","Q","R","S","T","U","V","W","X","Y","Z">>

LowerCase == <<"a","b","c","d","e","f","g","h","i","j","k","l","m","n","o","p","q","r","s","t","u","v","w","x","y","z">>

Whitespace == {" ", "\n", "\t", "\r"}

Range(f) == {f[i] : i \in DOMAIN f}

\* str.lower() on one character
LowerChar(c) ==
    IF c \in Range(UpperCase)
    THEN LowerCase[CHOOSE i \in DOMAIN UpperCase : UpperCase[i] = c]
    ELSE c

\* str.lower()
Lower(s) == [i \in DOMAIN s |-> LowerChar(s[i])]

\* the Python `sub in s` test on strings
Contains(s, sub) ==
    \E i \in 0..(Len(s) - Len(sub)) : SubSeq(s, i + 1, i + Len(sub)) = sub

\* str.strip(): drop leading and trailing whitespace
Strip(s) ==
    LET keep == {i \in DOMAIN s : s[i] \notin Whitespace}
    IN  IF keep = {} THEN <<>>
        ELSE LET lo == CHOOSE i \in keep : \A j \in keep : i <= j
                 hi == CHOOSE i \in keep : \A j \in keep : i >= j
             IN  SubSeq(s, lo, hi)

\* truthiness of a Python str
Truthy(s) == s # <<>>

\* ------------------------------------------------- follow-up detection
\* the phrase list of main.py line 209 / 325
FollowupPhrases == {
    <<"w","h","a","t"," ","s","h","o","u","l","d"," ","i"," ","d","o"," ","t","h","e","n">>,
    <<"w","h","a","t"," ","s","h","o","u","l","d"," ","i"," ","d","o">>,
    <<"t","h","e","n"," ","w","h","a","t">>,
    <<"w","h","a","t"," ","t","h","e","n">>,
    <<"a","l","t","e","r","n","a","t","i","v","e","s">>,
    <<"i","n","s","t","e","a","d">> }

\* any(word in query.question.lower() for word in [...])
HasFollowupPhrase(q) == \E w \in FollowupPhrases : Contains(Lower(q), w)

PrevQuestionLabel == <<"P","r","e","v","i","o","u","s"," ","q","u","e","s","t","i","o","n",":"," ">>

\* "\\nPrevious answer: " in the f-string: a backslash, the letter n, the label
PrevAnswerLabel == <<"\\","n","P","r","e","v","i","o","u","s"," ","a","n","s","w","e","r",":"," ">>

\* "\\nFollow-up question: " in the f-string: a backslash, the letter n, the label
FollowupLabel == <<"\\","n","F","o","l","l","o","w","-","u","p"," ","q","u","e","s","t","i","o","n",":"," ">>

\* the f-string of main.py line 211 / 327
RewrittenQuestion(ctx, q) ==
    PrevQuestionLabel \o ctx.last_question \o PrevAnswerLabel \o ctx.last_answer
        \o FollowupLabel \o q

\* a handler that never consults the shared context
EnhancedQuestionPlain(ctx, q) == q

\* step 1 of ask_question / ask_question_enhanced: the query for the chains
EnhancedQuestion(ctx, q) ==
    IF HasFollowupPhrase(q)
    THEN IF Truthy(ctx.last_question) /\ Truthy(ctx.last_answer)
         THEN RewrittenQuestion(ctx, q)
         ELSE q
    ELSE q

\* ------------------------------------------------- don't-know detection
\* the character class of r'[\\s\\W_]+': in the raw string the class holds an
\* escaped backslash, the letter s, an escaped backslash, the letter W and _
NormalizeClass == {"\\", "s", "W", "_"}

\* re.sub(r'[\\s\\W_]+', '', answer.lower())
NormalizeAnswer(a) ==
    LET Kept(c) == c \notin NormalizeClass
    IN  SelectSeq(Lower(a), Kept)

IDontKnow == <<"i","d","o","n","t","k","n","o","w">>

\* "idontknow" in normalized_answer or not normalized_answer
NeedsFallback(a) ==
    LET normalized_answer == NormalizeAnswer(a)
    IN  Contains(normalized_answer, IDontKnow) \/ ~Truthy(normalized_answer)

\* fallback_question = enhanced_question if enhanced_question != q else q
FallbackQuestion(enhanced_question, q) ==
    IF enhanced_question # q THEN enhanced_question ELSE q

\* ------------------------------------------------------------ retrieval
\* search_kwargs={"k": 5}
RetrieverK == 5

\* the chunks of the vector index in the order a similarity search ranks them
RankedChunks == <<3, 1, 4, 2, 5, 7, 6>>

\* a retrieved Document: its page_content
Document(id) == [page_content |-> <<"c", ToString(id)>>]

\* resp["source_documents"]: the k nearest chunks of an index of `size` chunks
SourceDocuments(size) ==
    [i \in 1..(IF size <= RetrieverK THEN size ELSE RetrieverK) |-> Document(RankedChunks[i])]

Min(a, b) == IF a <= b THEN a ELSE b

\* docs[:3]
FirstThree(docs) == SubSeq(docs, 1, Min(3, Len(docs)))

\* every retrieved document instead of the first three
SourcesAll(docs) == [i \in DOMAIN docs |-> docs[i].page_content]

\* [d.page_content for d in docs[:3]]
Sources(docs) == [i \in DOMAIN FirstThree(docs) |-> FirstThree(docs)[i].page_content]

\* ------------------------------------------------- inputs and chain outputs
\* the handler invocations that may exist at a time
Handlers == 1..MaxHandlers

Endpoints == {"/ask", "/ask-enhanced"}

\* query.question: "Speed?" and "What then"
Questions == {
    <<"S","p","e","e","d","?">>,
    <<"W","h","a","t"," ","t","h","e","n">> }

\* resp["result"] of the primary chain: "Ok ", "s", "I don't know.", " ",
\* "idontknow"
PrimaryResults == {
    <<"O","k"," ">>,
    <<"s">>,
    <<"I"," ","d","o","n","'","t"," ","k","n","o","w",".">>,
    <<" ">>,
    <<"i","d","o","n","t","k","n","o","w">> }

\* rag.fallback_chain.predict(...): "Rest ", "" and "idontknow"
FallbackResults == {
    <<"R","e","s","t"," ">>,
    <<>>,
    <<"i","d","o","n","t","k","n","o","w">> }

\* ------------------------------------------------------ semantic kernel
\* the text enhance_answer appends ("\n\n" and the fixed notice, abbreviated)
EnhancementSuffix == <<"\n","\n","i","n","f","o">>

\* an except branch that loses the original answer
enhance_answer_lossy(question, answer, ok) ==
    IF ok
    THEN [enhanced_answer |-> answer \o EnhancementSuffix, success |-> TRUE]
    ELSE [enhanced_answer |-> <<>>, success |-> FALSE, error |-> "enhance_answer"]

\* MTOSemanticKernel.enhance_answer; ok = FALSE is its except branch
enhance_answer(question, answer, ok) ==
    IF ok
    THEN [enhanced_answer |-> answer \o EnhancementSuffix, success |-> TRUE]
    ELSE [enhanced_answer |-> answer, success |-> FALSE, error |-> "enhance_answer"]

LicenseFollowups == <<"What documents do I need to bring?", "How much does it cost?", "How long is the test?">>

FatigueFollowups == <<"What are the signs of driver fatigue?", "How can I prevent getting tired while driving?", "What should I do if I feel drowsy?">>

SpeedFollowups == <<"What are the penalties for speeding?", "Are there different speed limits for different vehicles?", "How do weather conditions affect speed limits?">>

DefaultFollowups == <<"What are the related safety requirements?", "Are there any exceptions to this rule?", "Where can I find more information?">>

\* the keyword cascade of suggest_followups
CannedFollowups(question) ==
    LET q == Lower(question)
    IN  IF Contains(q, <<"l","i","c","e","n","s","e">>) THEN LicenseFollowups
        ELSE IF Contains(q, <<"t","i","r","e","d">>) \/ Contains(q, <<"f","a","t","i","g","u","e">>)
             THEN FatigueFollowups
        ELSE IF Contains(q, <<"s","p","e","e","d">>) THEN SpeedFollowups
        ELSE DefaultFollowups

\* MTOSemanticKernel.suggest_followups; ok = FALSE is its except branch
suggest_followups(question, answer, ok) ==
    IF ok
    THEN [followup_questions |-> FirstThree(CannedFollowups(question)), success |-> TRUE]
    ELSE [followup_questions |-> <<>>, success |-> FALSE, error |-> "suggest_followups"]

\* MTOSemanticKernel.store_conversation: `if not self.memory: return`
store_conversation(memory, question, answer, session_id) ==
    IF memory = {} THEN memory
    ELSE memory \cup {[question |-> question, answer |-> answer, session_id |-> session_id]}

\* --------------------------------------------------------- session store
NoResult == [none |-> TRUE]

\* a store_session whose upsert failure escapes
store_session_raising(cont, session_id, question, answer, upsert_ok) ==
    IF cont = "None"
    THEN [returned |-> FALSE, upserted |-> NoResult, raised |-> FALSE]
    ELSE IF upsert_ok
    THEN [returned |-> TRUE,
          upserted |-> [id |-> session_id, question |-> question, answer |-> answer],
          raised |-> FALSE]
    ELSE [returned |-> FALSE, upserted |-> NoResult, raised |-> TRUE]

\* cosmosdb.store_session: the value returned, the item the container took and
\* whether an exception leaves the function; upsert_ok = FALSE is upsert_item raising
store_session(cont, session_id, question, answer, upsert_ok) ==
    IF cont = "None"
    THEN [returned |-> FALSE, upserted |-> NoResult, raised |-> FALSE]
    ELSE IF upsert_ok
    THEN [returned |-> TRUE,
          upserted |-> [id |-> session_id, question |-> question, answer |-> answer],
          raised |-> FALSE]
    ELSE [returned |-> FALSE, upserted |-> NoResult, raised |-> FALSE]

\* ---------------------------------------------------- conversation context
\* conversation_context at module load
EmptyContext == [last_question |-> <<>>, last_answer |-> <<>>]

\* a context update that keeps the rewritten query
UpdatedContextRewritten(ctx, question, enhanced_question, answer) ==
    [ctx EXCEPT !.last_question = enhanced_question, !.last_answer = answer]

\* step 4 of ask_question / step 6 of ask_question_enhanced
UpdatedContext(ctx, question, enhanced_question, answer) ==
    [ctx EXCEPT !.last_question = question, !.last_answer = answer]

\* a clear_context that leaves the slot as it is
ClearedContextKept(ctx) == ctx

\* the two assignments of clear_context
ClearedContext(ctx) ==
    [ctx EXCEPT !.last_question = <<>>, !.last_answer = <<>>]

\* -------------------------------------------------------------- responses
\* the dict returned by ask_question
AskResponse(answer, docs) ==
    [answer |-> answer, sources |-> Sources(docs)]

\* the dict returned by the try block of ask_question_enhanced
EnhancedResponse(final_answer, docs, followup_questions, enhancement_result, session_id) ==
    [answer |-> final_answer,
     sources |-> Sources(docs),
     followup_questions |-> followup_questions,
     enhanced |-> enhancement_result.success,
     session_id |-> session_id]

\* "Sorry, I encountered an error processing your enhanced request. ..."
ApologyAnswer == <<"S","o","r","r","y">>

\* the dict returned by the except block of ask_question_enhanced
EnhancedErrorResponse(e) ==
    [answer |-> ApologyAnswer,
     sources |-> <<>>,
     followup_questions |-> <<>>,
     enhanced |-> FALSE,
     error |-> e]

\* ===================================================================
\* Ingestion: scripts/rebuild_vectorstore_ocr_tfidf.py
\* ===================================================================
\* n copies of s, one after the other
Repeat(s, n) == [i \in 1..(n * Len(s)) |-> s[((i - 1) % Len(s)) + 1]]

\* \w of Python's re: letters, digits and the underscore
WordChars ==
    Range(UpperCase) \cup Range(LowerCase)
        \cup {"0","1","2","3","4","5","6","7","8","9"} \cup {"_"}

\* the characters r'[^\w\s.,!?()\[\]{}:;]' leaves alone
CleanKept ==
    WordChars \cup Whitespace \cup {".", ",", "!", "?", "(", ")", "[", "]", "{", "}", ":", ";"}

\* re.sub(r'[^\w\s.,!?()\[\]{}:;]', ' ', text)
RemoveSpecialChars(t) == [i \in DOMAIN t |-> IF t[i] \in CleanKept THEN t[i] ELSE " "]

\* re.sub(r'\s+', ' ', text) on t[lo..hi]: a run of whitespace leaves one
\* blank, at the place of its first character
RECURSIVE NormalizeWhitespace(_, _, _)
NormalizeWhitespace(t, lo, hi) ==
    IF lo > hi THEN <<>>
    ELSE IF lo = hi
    THEN IF t[lo] \notin Whitespace THEN <<t[lo]>>
         ELSE IF lo > 1 /\ t[lo - 1] \in Whitespace THEN <<>>
         ELSE <<" ">>
    ELSE LET mid == (lo + hi) \div 2
         IN  NormalizeWhitespace(t, lo, mid) \o NormalizeWhitespace(t, mid + 1, hi)

\* the three cleaning statements of extract_text_with_ocr, lines 82-84
CleanText(t) == Strip(NormalizeWhitespace(RemoveSpecialChars(t), 1, Len(t)))

\* `len(text) > 100`
MinTextLength == 100

\* a page that keeps every text, however short
RetainedAlways(text) == TRUE

\* `if text and len(text) > 100`
Retained(text) == Truthy(text) /\ Len(text) > MinTextLength

\* sep.join(parts[lo..hi])
RECURSIVE JoinRange(_, _, _, _)
JoinRange(sep, parts, lo, hi) ==
    IF lo > hi THEN <<>>
    ELSE IF lo = hi THEN parts[lo]
    ELSE LET mid == (lo + hi) \div 2
         IN  JoinRange(sep, parts, lo, mid) \o sep \o JoinRange(sep, parts, mid + 1, hi)

\* sep.join(parts)
Join(sep, parts) == JoinRange(sep, parts, 1, Len(parts))

\* "\n\n".join(text_content)
FullText(text_content) == Join(<<"\n", "\n">>, text_content)

\* ---------------------------------------------------- sentence segmentation
SentenceEnd == {".", "?", "!"}

\* first position from i on that is not whitespace
RECURSIVE SkipWhitespace(_, _)
SkipWhitespace(t, i) ==
    IF i <= Len(t) /\ t[i] \in Whitespace THEN SkipWhitespace(t, i + 1) ELSE i

\* the positions in lo..hi where a sentence ends: . ? ! followed by whitespace
\* or by the end of the text
RECURSIVE SentenceEnds(_, _, _)
SentenceEnds(t, lo, hi) ==
    IF lo > hi THEN <<>>
    ELSE IF lo = hi
    THEN IF t[lo] \in SentenceEnd /\ (lo = Len(t) \/ t[lo + 1] \in Whitespace)
         THEN <<lo>>
         ELSE <<>>
    ELSE LET mid == (lo + hi) \div 2
         IN  SentenceEnds(t, lo, mid) \o SentenceEnds(t, mid + 1, hi)

\* nltk sent_tokenize(text): the spans between the sentence ends, without the
\* whitespace in front of them, and what is left behind the last end
sent_tokenize(t) ==
    LET ends == SentenceEnds(t, 1, Len(t))
        start(k) == SkipWhitespace(t, IF k = 1 THEN 1 ELSE ends[k - 1] + 1)
        rest == start(Len(ends) + 1)
    IN  [k \in DOMAIN ends |-> SubSeq(t, start(k), ends[k])]
            \o (IF rest <= Len(t) THEN <<SubSeq(t, rest, Len(t))>> ELSE <<>>)

\* `len(sentences) < 10`
MinSentences == 10

\* n_clusters: int = 10
DefaultClusters == 10

\* ------------------------------------------------------------------ state
VARIABLES
    service,               \* "importing", "running" or "failed": import of app.main
    env,                   \* which of COSMOS_ENDPOINT / COSMOS_KEY are set
    container,             \* cosmosdb.container: "None" or "ContainerProxy"
    index_size,            \* number of chunks in the persisted vector index
    conversation_context,  \* main.conversation_context
    sk_memory,             \* sk_instance.memory
    received,              \* number of requests received so far
    uuid_count,            \* number of uuid.uuid4() values drawn so far
    last_handled,          \* the route of the request completed last
    pc,                    \* per handler: where its request stands
    req                    \* per handler: its locals and what it handed to the sinks

\* the ingestion run (scripts/rebuild_vectorstore_ocr_tfidf.py, its own process)
VARIABLES
    ing_pc,                \* where main() stands
    ing_env,               \* OPENAI_API_KEY set, PDF present, PDF renders, page count
    ocr,                   \* per page processed so far: what image_to_string did
                           \* and the page's `text` after the cleaning
    text_content,          \* extract_text_with_ocr's list of retained page texts
    text,                  \* main's `text`: what extract_text_with_ocr returned
    analysis,              \* what analyze_with_tfidf did and returned
    chunks,                \* what splitter.split_text returned
    documents,             \* what create_smart_chunks returned
    embedded,              \* number of documents handed to the embedding model
    vectorstore_dir        \* the persisted index: "previous" or "rebuilt"

\* the component loader of the service (RAGComponents), one caller per thread
VARIABLES
    instance,              \* RAGComponents._instance: 0 is None, else the object
    lock,                  \* RAGComponents._lock: 0 is free, else the holder
    components,            \* per object created: which attributes are set
    load_calls,            \* number of times _load_components was entered
    tpc,                   \* per thread: where its get_instance call stands
    tres                   \* per thread: what its call returned or raised

serverVars == <<service, env, container, index_size, conversation_context, sk_memory,
                received, uuid_count, last_handled, pc, req>>

ingestVars == <<ing_pc, ing_env, ocr, text_content, text, analysis, chunks,
                documents, embedded, vectorstore_dir>>

loaderVars == <<instance, lock, components, load_calls, tpc, tres>>

vars == <<serverVars, ingestVars, loaderVars>>

\* the locals of a handler before its first assignment
NoRequest ==
    [endpoint |-> "", question |-> <<>>, enhanced_question |-> <<>>,
     chain_calls |-> <<>>, result |-> <<>>, docs |-> <<>>, answer |-> <<>>,
     fallback_question |-> <<>>, fallback_called |-> FALSE, fallback_result |-> <<>>,
     enhancement_result |-> NoResult, final_answer |-> <<>>,
     followup_result |-> NoResult,
     session_id |-> 0, store_result |-> NoResult, upserted |-> NoResult,
     tracked |-> NoResult, body |-> NoResult, logged |-> "", outcome |-> NoResult]

\* no ingestion run is in progress
IngestOff ==
    /\ ing_pc = "off"
    /\ ing_env = [OPENAI_API_KEY |-> TRUE, pdf_exists |-> TRUE, renders |-> TRUE, pages |-> 0]
    /\ ocr = <<>>
    /\ text_content = <<>>
    /\ text = <<>>
    /\ analysis = NoResult
    /\ chunks = <<>>
    /\ documents = <<>>
    /\ embedded = 0
    /\ vectorstore_dir = "previous"

\* no thread is calling get_instance
LoaderOff ==
    /\ instance = 0
    /\ lock = 0
    /\ components = <<>>
    /\ load_calls = 0
    /\ tpc = <<>>
    /\ tres = <<>>

Init ==
    /\ service = "importing"
    /\ env \in [COSMOS_ENDPOINT : BOOLEAN, COSMOS_KEY : BOOLEAN]
    /\ container = "None"
    /\ index_size \in 0..MaxChunks
    /\ conversation_context = EmptyContext
    /\ sk_memory = {}
    /\ received = 0
    /\ uuid_count = 0
    /\ last_handled = ""
    /\ pc = [c \in Handlers |-> "idle"]
    /\ req = [c \in Handlers |-> NoRequest]
    /\ IngestOff
    /\ LoaderOff

\* ---------------------------------------------------------------- startup
\* cosmosdb.py line 20: the check made when the module is imported
CredentialsFound(e) == e.COSMOS_ENDPOINT /\ e.COSMOS_KEY

\* init_cosmos: the container after the call; client_ok = FALSE is CosmosClient raising
init_cosmos(e, client_ok) ==
    IF e.COSMOS_ENDPOINT /\ e.COSMOS_KEY
    THEN IF client_ok THEN "ContainerProxy" ELSE "None"
    ELSE "None"

\* `from app.cosmosdb import store_session` in main.py: runs cosmosdb.py once
ImportApp ==
    /\ service = "importing"
    /\ IF ~CredentialsFound(env)
       THEN /\ service' = "failed"
            /\ UNCHANGED container
       ELSE \E client_ok \in BOOLEAN :
                /\ container' = init_cosmos(env, client_ok)
                /\ service' = "running"
    /\ UNCHANGED <<ingestVars, loaderVars,
                   env, index_size, conversation_context, sk_memory,
                   received, uuid_count, last_handled, pc, req>>

\* ------------------------------------------------------- handler outcomes
Raised(call) == [kind |-> "exception", error |-> call]

Returned(body) == [kind |-> "response", body |-> body]

\* the except branch of the track_request wrapper: log_error, then raise
LogFailed == "error"

\* the success branch of the track_request wrapper: log_info and log_metric
LogCompleted == "success"

\* what track_rag_performance hands to log_info
RagMetric(question, answer, docs) ==
    [question_length |-> Len(question), answer_length |-> Len(answer),
     sources_count |-> Len(docs)]

InFlight == {c \in Handlers : pc[c] # "idle"}

\* the handler invocation a new request gets: the first free one
FreeHandler(c) == pc[c] = "idle" /\ \A d \in Handlers : d < c => pc[d] # "idle"

\* a handler whose every exception is turned into the apology response
FailHandled(c, call) ==
    /\ req' = [req EXCEPT ![c].body = EnhancedErrorResponse(call)]
    /\ pc' = [pc EXCEPT ![c] = "wrapper"]

\* an exception raised by `call` inside the handler of client c: ask_question
\* lets it reach the wrapper, ask_question_enhanced returns its except dict
Fail(c, call) ==
    IF req[c].endpoint = "/ask"
    THEN /\ req' = [req EXCEPT ![c].outcome = Raised(call), ![c].logged = LogFailed]
         /\ pc' = [pc EXCEPT ![c] = "done"]
    ELSE /\ req' = [req EXCEPT ![c].body = EnhancedErrorResponse(call)]
         /\ pc' = [pc EXCEPT ![c] = "wrapper"]

\* ------------------------------------------------------------- the handlers
\* a request arrives: follow-up detection, then the primary chain is called
Receive(c, endpoint, question) ==
    /\ service = "running"
    /\ FreeHandler(c)
    /\ received < MaxRequests
    /\ received' = received + 1
    /\ req' = [req EXCEPT ![c] =
                  [NoRequest EXCEPT !.endpoint = endpoint,
                                    !.question = question,
                                    !.enhanced_question =
                                        EnhancedQuestion(conversation_context, question),
                                    !.chain_calls = <<"qa_chain">>]]
    /\ pc' = [pc EXCEPT ![c] = "primary"]
    /\ UNCHANGED <<ingestVars, loaderVars,
                   service, env, container, index_size, conversation_context,
                   sk_memory, uuid_count, last_handled>>

\* a resolver that asks the fallback chain again while the answer is a miss
ResolvedUnlessMiss(c, r) ==
    IF NeedsFallback(r.answer) /\ Len(r.chain_calls) < 3
    THEN /\ req' = [req EXCEPT ![c] =
                        [r EXCEPT !.chain_calls = Append(@, "fallback_chain")]]
         /\ pc' = [pc EXCEPT ![c] = "fallback"]
         /\ UNCHANGED <<conversation_context, uuid_count>>
    ELSE IF r.endpoint = "/ask"
    THEN /\ conversation_context' =
                UpdatedContext(conversation_context, r.question, r.enhanced_question, r.answer)
         /\ uuid_count' = uuid_count + 1
         /\ req' = [req EXCEPT ![c] = [r EXCEPT !.session_id = uuid_count + 1]]
         /\ pc' = [pc EXCEPT ![c] = "store"]
    ELSE /\ req' = [req EXCEPT ![c] = r]
         /\ pc' = [pc EXCEPT ![c] = "enhance"]
         /\ UNCHANGED <<conversation_context, uuid_count>>

\* the answer is resolved: ask_question updates the context and draws the
\* session id, ask_question_enhanced goes on to the enhancement
Resolved(c, r) ==
    IF r.endpoint = "/ask"
    THEN /\ conversation_context' =
                UpdatedContext(conversation_context, r.question, r.enhanced_question, r.answer)
         /\ uuid_count' = uuid_count + 1
         /\ req' = [req EXCEPT ![c] = [r EXCEPT !.session_id = uuid_count + 1]]
         /\ pc' = [pc EXCEPT ![c] = "store"]
    ELSE /\ req' = [req EXCEPT ![c] = r]
         /\ pc' = [pc EXCEPT ![c] = "enhance"]
         /\ UNCHANGED <<conversation_context, uuid_count>>

\* a primary step that records the turn before the fallback chain is asked
PrimaryReturnRecording(c) ==
    /\ pc[c] = "primary"
    /\ \/ /\ Fail(c, "qa_chain")
          /\ UNCHANGED <<conversation_context, uuid_count>>
       \/ \E result \in PrimaryResults :
            LET r == [req[c] EXCEPT !.result = result,
                                    !.docs = SourceDocuments(index_size),
                                    !.answer = Strip(result)]
            IN  IF NeedsFallback(r.answer)
                THEN /\ req' = [req EXCEPT ![c] =
                                [r EXCEPT !.fallback_question =
                                     FallbackQuestion(r.enhanced_question, r.question),
                                          !.chain_calls = Append(@, "fallback_chain")]]
                     /\ pc' = [pc EXCEPT ![c] = "fallback"]
                     /\ conversation_context' =
                            UpdatedContext(conversation_context, r.question,
                                           r.enhanced_question, r.answer)
                     /\ UNCHANGED uuid_count
                ELSE Resolved(c, r)
    /\ UNCHANGED <<ingestVars, loaderVars,
                   service, env, container, index_size, sk_memory, received, last_handled>>

\* rag.qa_chain({"query": enhanced_question}) returns or raises
PrimaryReturn(c) ==
    /\ pc[c] = "primary"
    /\ \/ /\ Fail(c, "qa_chain")
          /\ UNCHANGED <<conversation_context, uuid_count>>
       \/ \E result \in PrimaryResults :
            LET r == [req[c] EXCEPT !.result = result,
                                    !.docs = SourceDocuments(index_size),
                                    !.answer = Strip(result)]
            IN  IF NeedsFallback(r.answer)
                THEN /\ req' = [req EXCEPT ![c] =
                                [r EXCEPT !.fallback_question =
                                     FallbackQuestion(r.enhanced_question, r.question),
                                          !.chain_calls = Append(@, "fallback_chain")]]
                     /\ pc' = [pc EXCEPT ![c] = "fallback"]
                     /\ UNCHANGED <<conversation_context, uuid_count>>
                ELSE Resolved(c, r)
    /\ UNCHANGED <<ingestVars, loaderVars,
                   service, env, container, index_size, sk_memory, received, last_handled>>

\* a fallback step that asks the primary chain again when its output is a miss
FallbackReturnRetrying(c) ==
    /\ pc[c] = "fallback"
    /\ \/ /\ Fail(c, "fallback_chain")
          /\ UNCHANGED <<conversation_context, uuid_count>>
       \/ \E output \in FallbackResults :
            IF NeedsFallback(Strip(output)) /\ Len(req[c].chain_calls) < 4
            THEN /\ req' = [req EXCEPT ![c].chain_calls = Append(@, "qa_chain")]
                 /\ pc' = [pc EXCEPT ![c] = "primary"]
                 /\ UNCHANGED <<conversation_context, uuid_count>>
            ELSE Resolved(c, [req[c] EXCEPT !.fallback_called = TRUE,
                                            !.fallback_result = output,
                                            !.answer = Strip(output)])
    /\ UNCHANGED <<ingestVars, loaderVars,
                   service, env, container, index_size, sk_memory, received, last_handled>>

\* rag.fallback_chain.predict(question=fallback_question) returns or raises
FallbackReturn(c) ==
    /\ pc[c] = "fallback"
    /\ \/ /\ Fail(c, "fallback_chain")
          /\ UNCHANGED <<conversation_context, uuid_count>>
       \/ \E output \in FallbackResults :
            Resolved(c, [req[c] EXCEPT !.fallback_called = TRUE,
                                       !.fallback_result = output,
                                       !.answer = Strip(output)])
    /\ UNCHANGED <<ingestVars, loaderVars,
                   service, env, container, index_size, sk_memory, received, last_handled>>

\* step 2 of ask_question_enhanced: await enhance_answer(...)
EnhanceReturn(c) ==
    /\ pc[c] = "enhance"
    /\ \E ok \in BOOLEAN :
         LET enhancement_result == enhance_answer(req[c].question, req[c].answer, ok)
         IN  req' = [req EXCEPT ![c].enhancement_result = enhancement_result,
                                ![c].final_answer = enhancement_result.enhanced_answer]
    /\ pc' = [pc EXCEPT ![c] = "suggest"]
    /\ UNCHANGED <<ingestVars, loaderVars,
                   service, env, container, index_size, conversation_context,
                   sk_memory, received, uuid_count, last_handled>>

\* steps 3 and 4 of ask_question_enhanced: await suggest_followups(...), the
\* session id, await store_conversation(...)
SuggestReturn(c) ==
    /\ pc[c] = "suggest"
    /\ \E ok \in BOOLEAN :
         req' = [req EXCEPT ![c].followup_result =
                                suggest_followups(req[c].question, req[c].final_answer, ok),
                            ![c].session_id = uuid_count + 1]
    /\ uuid_count' = uuid_count + 1
    /\ sk_memory' = store_conversation(sk_memory, req[c].question, req[c].final_answer,
                                       uuid_count + 1)
    /\ pc' = [pc EXCEPT ![c] = "store"]
    /\ UNCHANGED <<ingestVars, loaderVars,
                   service, env, container, index_size, conversation_context,
                   received, last_handled>>

\* the answer a handler stores, tracks and returns: answer / final_answer
FinalAnswer(r) == IF r.endpoint = "/ask" THEN r.answer ELSE r.final_answer

\* a store step of ask_question_enhanced that assigns last_question only
StoreReturnTorn(c) ==
    /\ pc[c] = "store"
    /\ \E upsert_ok \in BOOLEAN :
         LET r == req[c]
             stored == store_session(container, r.session_id, r.question,
                                     FinalAnswer(r), upsert_ok)
             result == IF stored.raised THEN NoResult ELSE [returned |-> stored.returned]
         IN  IF r.endpoint = "/ask"
             THEN /\ req' = [req EXCEPT ![c].store_result = result,
                                        ![c].upserted = stored.upserted]
                  /\ pc' = [pc EXCEPT ![c] = "track"]
                  /\ UNCHANGED conversation_context
             ELSE IF stored.raised
             THEN /\ Fail(c, "store_session")
                  /\ UNCHANGED conversation_context
             ELSE /\ req' = [req EXCEPT ![c].store_result = result,
                                        ![c].upserted = stored.upserted]
                  /\ conversation_context' =
                         [conversation_context EXCEPT !.last_question = r.question]
                  /\ pc' = [pc EXCEPT ![c] = "track"]
    /\ UNCHANGED <<ingestVars, loaderVars,
                   service, env, container, index_size, sk_memory, received,
                   uuid_count, last_handled>>

\* store_session(session_id, query.question, answer): inside try/except in
\* ask_question, bare in ask_question_enhanced, which then updates the context
StoreReturn(c) ==
    /\ pc[c] = "store"
    /\ \E upsert_ok \in BOOLEAN :
         LET r == req[c]
             stored == store_session(container, r.session_id, r.question,
                                     FinalAnswer(r), upsert_ok)
             result == IF stored.raised THEN NoResult ELSE [returned |-> stored.returned]
         IN  IF r.endpoint = "/ask"
             THEN /\ req' = [req EXCEPT ![c].store_result = result,
                                        ![c].upserted = stored.upserted]
                  /\ pc' = [pc EXCEPT ![c] = "track"]
                  /\ UNCHANGED conversation_context
             ELSE IF stored.raised
             THEN /\ Fail(c, "store_session")
                  /\ UNCHANGED conversation_context
             ELSE /\ req' = [req EXCEPT ![c].store_result = result,
                                        ![c].upserted = stored.upserted]
                  /\ conversation_context' =
                         UpdatedContext(conversation_context, r.question,
                                        r.enhanced_question, r.final_answer)
                  /\ pc' = [pc EXCEPT ![c] = "track"]
    /\ UNCHANGED <<ingestVars, loaderVars,
                   service, env, container, index_size, sk_memory, received,
                   uuid_count, last_handled>>

\* track_rag_performance(...) returns or raises; then the handler returns
TrackReturn(c) ==
    /\ pc[c] = "track"
    /\ \/ Fail(c, "track_rag_performance")
       \/ LET r == req[c]
          IN  /\ req' = [req EXCEPT
                            ![c].tracked = RagMetric(r.question, FinalAnswer(r), r.docs),
                            ![c].body =
                                IF r.endpoint = "/ask"
                                THEN AskResponse(r.answer, r.docs)
                                ELSE EnhancedResponse(r.final_answer, r.docs,
                                                      r.followup_result.followup_questions,
                                                      r.enhancement_result, r.session_id)]
              /\ pc' = [pc EXCEPT ![c] = "wrapper"]
    /\ UNCHANGED <<ingestVars, loaderVars,
                   service, env, container, index_size, conversation_context,
                   sk_memory, received, uuid_count, last_handled>>

\* the track_request wrapper after `result = await func(...)`: its logging
\* succeeds and the result is returned, or raises into its except branch
WrapperLog(c) ==
    /\ pc[c] = "wrapper"
    /\ \/ req' = [req EXCEPT ![c].outcome = Returned(req[c].body),
                              ![c].logged = LogCompleted]
       \/ req' = [req EXCEPT ![c].outcome = Raised("log_info"),
                              ![c].logged = LogFailed]
    /\ pc' = [pc EXCEPT ![c] = "done"]
    /\ UNCHANGED <<ingestVars, loaderVars,
                   service, env, container, index_size, conversation_context,
                   sk_memory, received, uuid_count, last_handled>>

\* the response (or the server error) is sent; the handler's frame is gone
Deliver(c) ==
    /\ pc[c] = "done"
    /\ pc' = [pc EXCEPT ![c] = "idle"]
    /\ req' = [req EXCEPT ![c] = NoRequest]
    /\ last_handled' = req[c].endpoint
    /\ UNCHANGED <<ingestVars, loaderVars,
                   service, env, container, index_size, conversation_context,
                   sk_memory, received, uuid_count>>

\* POST /clear-context
ClearContext ==
    /\ service = "running"
    /\ conversation_context' = ClearedContext(conversation_context)
    /\ last_handled' = "/clear-context"
    /\ UNCHANGED <<ingestVars, loaderVars, service, env, container, index_size, sk_memory,
                   received, uuid_count, pc, req>>

\* one handler at a time: a request is taken up when none is in flight
Next ==
    \/ ImportApp
    \/ \E c \in Handlers, endpoint \in Endpoints, question \in Questions :
          InFlight = {} /\ Receive(c, endpoint, question)
    \/ \E c \in Handlers : PrimaryReturn(c)
    \/ \E c \in Handlers : FallbackReturn(c)
    \/ \E c \in Handlers : EnhanceReturn(c)
    \/ \E c \in Handlers : SuggestReturn(c)
    \/ \E c \in Handlers : StoreReturn(c)
    \/ \E c \in Handlers : TrackReturn(c)
    \/ \E c \in Handlers : WrapperLog(c)
    \/ \E c \in Handlers : Deliver(c)
    \/ InFlight = {} /\ ClearContext

Spec == Init /\ [][Next]_vars

\* every call a handler makes comes back (returns or raises), and the code
\* between two calls runs to the next call: no handler step stays enabled
\* forever without being taken
HandlerStep(c) ==
    \/ PrimaryReturn(c)
    \/ FallbackReturn(c)
    \/ EnhanceReturn(c)
    \/ SuggestReturn(c)
    \/ StoreReturn(c)
    \/ TrackReturn(c)
    \/ WrapperLog(c)
    \/ Deliver(c)

\* the service with a full index: the size of the index has no part in
\* whether a request ends
InitFair == Init /\ index_size = MaxChunks

SpecFair ==
    /\ InitFair
    /\ [][Next]_vars
    /\ \A c \in Handlers : WF_vars(HandlerStep(c))

\* ---------------------------------------------------- concurrent requests
\* the external calls of the request with locals r have come back without an
\* exception: the primary chain with "Ok " or " ", the fallback chain with
\* "Rest ", the semantic kernel and the telemetry normally
CallsSucceed(r) ==
    /\ r.result \in {<<>>, <<"O","k"," ">>, <<" ">>}
    /\ r.fallback_result \in {<<>>, <<"R","e","s","t"," ">>}
    /\ r.enhancement_result = NoResult \/ r.enhancement_result.success
    /\ r.followup_result = NoResult \/ r.followup_result.success
    /\ r.body = NoResult \/ "error" \notin DOMAIN r.body
    /\ r.logged # LogFailed

\* the hosting runtime takes up a request while others wait on an external
\* call: requests interleave at the calls, and the code between two calls of
\* one handler runs without interruption; the session store is unavailable
\* (CosmosClient raised in init_cosmos), so store_session returns False
InitConcurrent == Init /\ CredentialsFound(env) /\ index_size = MaxChunks

\* the question of the client whose request handler c serves: "Speed?" from
\* one client, the follow-up "What then" from the other
ClientQuestion(c) ==
    IF c % 2 = 1 THEN <<"S","p","e","e","d","?">>
                 ELSE <<"W","h","a","t"," ","t","h","e","n">>

NextConcurrent ==
    \/ ImportApp /\ container' = "None"
    \/ \E c \in Handlers, endpoint \in Endpoints :
          Receive(c, endpoint, ClientQuestion(c))
    \/ \E c \in Handlers : HandlerStep(c) /\ CallsSucceed(req[c])'
    \/ ClearContext

SpecConcurrent == InitConcurrent /\ [][NextConcurrent]_vars

\* ===================================================================
\* The ingestion run: main() of scripts/rebuild_vectorstore_ocr_tfidf.py
\* ===================================================================
\* the service in state `status`, with no request taken up yet
ServerIdle(status) ==
    /\ service = status
    /\ env = [COSMOS_ENDPOINT |-> FALSE, COSMOS_KEY |-> FALSE]
    /\ container = "None"
    /\ index_size = 0
    /\ conversation_context = EmptyContext
    /\ sk_memory = {}
    /\ received = 0
    /\ uuid_count = 0
    /\ last_handled = ""
    /\ pc = [c \in Handlers |-> "idle"]
    /\ req = [c \in Handlers |-> NoRequest]

\* what pytesseract.image_to_string reads off a page
PageLicense == Repeat(<<"G", "e", "t", " ", "a", " ", "g", "1", " ", "l", "i", "c", "e", "n", "s", "e", " ", "n", "o", "w", ".", " ">>, 5)
PageSigns == Repeat(<<"S", "t", "o", "p", " ", "@", " ", " ", "a", "t", " ", "r", "e", "d", "!", " ">>, 8)
PageHundred == Repeat(<<"a", "b", "c", "d", " ">>, 19) \o <<"a", "b", "c", "d", "e">>
PageHundredOne == Repeat(<<"a", "b", "c", "d", " ">>, 20) \o <<"x">>

PageTexts == {PageLicense, PageSigns, PageHundred, PageHundredOne}

\* image_to_string returned `raw`
OcrText(raw) == [raised |-> FALSE, raw |-> raw]

\* image_to_string raised: the inner except, `continue`
OcrRaised == [raised |-> TRUE, raw |-> <<>>]

OcrOutcomes == {OcrRaised} \cup {OcrText(raw) : raw \in PageTexts}

\* the index is rebuilt offline, while the service is not running
IngestInit ==
    /\ ServerIdle("stopped")
    /\ LoaderOff
    /\ ing_pc = "start"
    /\ ing_env \in [OPENAI_API_KEY : BOOLEAN, pdf_exists : BOOLEAN,
                    renders : BOOLEAN, pages : 0..MaxPages]
    /\ ocr = <<>>
    /\ text_content = <<>>
    /\ text = <<>>
    /\ analysis = NoResult
    /\ chunks = <<>>
    /\ documents = <<>>
    /\ embedded = 0
    /\ vectorstore_dir = "previous"

\* main, lines 231-242, up to convert_from_path: without the key or the PDF
\* sys.exit(1); when the PDF does not render the outer except returns ""
StartMain ==
    /\ ing_pc = "start"
    /\ IF ~ing_env.OPENAI_API_KEY \/ ~ing_env.pdf_exists
       THEN ing_pc' = "exit1"
       ELSE IF ~ing_env.renders
       THEN ing_pc' = "extracted"
       ELSE ing_pc' = "pages"
    /\ UNCHANGED <<ing_env, ocr, text_content, text, analysis, chunks, documents,
                   embedded, vectorstore_dir>>
    /\ UNCHANGED <<serverVars, loaderVars>>

\* one turn of the page loop, lines 69-94 (preprocess_image is taken to return)
OcrPage ==
    /\ ing_pc = "pages"
    /\ Len(ocr) < ing_env.pages
    /\ \E outcome \in OcrOutcomes :
         LET cleaned == IF outcome.raised THEN <<>> ELSE CleanText(outcome.raw)
         IN  /\ ocr' = Append(ocr, [raised |-> outcome.raised, raw |-> outcome.raw,
                                    text |-> cleaned])
             /\ text_content' =
                    IF ~outcome.raised /\ Retained(cleaned)
                    THEN Append(text_content, cleaned)
                    ELSE text_content
    /\ UNCHANGED <<ing_pc, ing_env, text, analysis, chunks, documents, embedded,
                   vectorstore_dir>>
    /\ UNCHANGED <<serverVars, loaderVars>>

\* lines 96-99: the loop is over, full_text is returned to main
ReturnFullText ==
    /\ ing_pc = "pages"
    /\ Len(ocr) = ing_env.pages
    /\ text' = FullText(text_content)
    /\ ing_pc' = "extracted"
    /\ UNCHANGED <<ing_env, ocr, text_content, analysis, chunks, documents, embedded,
                   vectorstore_dir>>
    /\ UNCHANGED <<serverVars, loaderVars>>

\* a text main goes on with whatever it holds
ReadableAlways(t) == TRUE

\* `text.strip()` of line 244 is truthy
Readable(t) == Truthy(Strip(t))

\* main, lines 244-246: `if not text.strip(): sys.exit(1)`; when main goes
\* on, nothing of the page loop but `text` is left
CheckText ==
    /\ ing_pc = "extracted"
    /\ IF Readable(text)
       THEN /\ ing_pc' = "analyze"
            /\ ocr' = <<>>
            /\ text_content' = <<>>
       ELSE /\ ing_pc' = "exit1"
            /\ UNCHANGED <<ocr, text_content>>
    /\ UNCHANGED <<ing_env, text, analysis, chunks, documents, embedded,
                   vectorstore_dir>>
    /\ UNCHANGED <<serverVars, loaderVars>>

\* ------------------------------------------------ term-importance analysis
\* the first n elements: seq[:n]
FirstN(seq, n) == SubSeq(seq, 1, Min(n, Len(seq)))

\* `[::-1][:50]`
TopTerms == 50

\* the steps of analyze_with_tfidf that call into nltk, sklearn and numpy
AnalysisSteps == {"sent_tokenize", "stopwords", "fit_transform", "ranking", "kmeans"}

\* vectorizer.get_feature_names_out() in rank order: aa, ab, ... az, ba, ...
RankedFeatures(n) ==
    [i \in 1..n |-> <<LowerCase[((i - 1) \div 26) + 1], LowerCase[((i - 1) % 26) + 1]>>]

FeatureLists == {RankedFeatures(TopTerms + 1), <<<<"g", "1">>, <<"r", "e", "d">>>>}

\* kmeans.fit_predict: one cluster id below k per sentence
KMeansStrides == {0, 1, 3}

KMeansLabels(n, k) == {[i \in 1..n |-> (i * stride) % k] : stride \in KMeansStrides}

\* a selection that takes the sentences of the earlier clusters again
ClusterSentencesUpTo(sentences, labels, cluster_id) ==
    LET Member(i) == labels[i] <= cluster_id
        picked == SelectSeq([i \in DOMAIN sentences |-> i], Member)
    IN  [k \in DOMAIN picked |-> sentences[picked[k]]]

\* [sentences[i] for i in range(len(sentences)) if sentence_clusters[i] == cluster_id]
ClusterSentences(sentences, labels, cluster_id) ==
    LET Member(i) == labels[i] = cluster_id
        picked == SelectSeq([i \in DOMAIN sentences |-> i], Member)
    IN  [k \in DOMAIN picked |-> sentences[picked[k]]]

\* the loop `for cluster_id in range(n_clusters)` from cluster_id on
RECURSIVE ClusteredText(_, _, _, _)
ClusteredText(sentences, labels, n_clusters, cluster_id) ==
    IF cluster_id >= n_clusters THEN <<>>
    ELSE LET cluster_sentences == ClusterSentences(sentences, labels, cluster_id)
         IN  (IF cluster_sentences # <<>> THEN cluster_sentences \o << <<>> >> ELSE <<>>)
                \o ClusteredText(sentences, labels, n_clusters, cluster_id + 1)

\* an exception leaves analyze_with_tfidf
AnalysisRaised(calls, failed) ==
    [raised |-> TRUE, calls |-> calls, failed |-> failed, sentences |-> 0,
     organized_text |-> <<>>, important_terms |-> <<>>]

\* `return organized_text, important_terms`
AnalysisReturned(calls, failed, sentences, organized_text, important_terms) ==
    [raised |-> FALSE, calls |-> calls, failed |-> failed, sentences |-> Len(sentences),
     organized_text |-> organized_text, important_terms |-> important_terms]

\* a gate that lets every text through to the analysis
TooFewSentencesNever(sentences) == FALSE

\* `if len(sentences) < 10`
TooFewSentences(sentences) == Len(sentences) < MinSentences

\* analyze_with_tfidf(text, n_clusters); `returns` holds the steps that do not
\* raise, `features` and `labels` are what sklearn computes
analyze_with_tfidf(t, n_clusters, returns, features, labels) ==
    IF "sent_tokenize" \notin returns
    THEN AnalysisRaised({"sent_tokenize"}, {"sent_tokenize"})
    ELSE
    LET sentences == sent_tokenize(t)
        stop_failed == IF "stopwords" \in returns THEN {} ELSE {"stopwords"}
        important_terms == FirstN(features, TopTerms)
    IN  IF TooFewSentences(sentences)
        THEN AnalysisReturned({"sent_tokenize"}, {}, sentences, t, <<>>)
        ELSE IF "fit_transform" \notin returns
        THEN AnalysisReturned({"sent_tokenize", "stopwords", "fit_transform"},
                              stop_failed \cup {"fit_transform"}, sentences, t, <<>>)
        ELSE IF "ranking" \notin returns
        THEN AnalysisReturned({"sent_tokenize", "stopwords", "fit_transform", "ranking"},
                              stop_failed \cup {"ranking"}, sentences, t, <<>>)
        ELSE IF Len(sentences) >= n_clusters
        THEN IF "kmeans" \notin returns
             THEN AnalysisReturned(AnalysisSteps, stop_failed \cup {"kmeans"},
                                   sentences, t, <<>>)
             ELSE AnalysisReturned(AnalysisSteps, stop_failed, sentences,
                      Join(<<"\n">>, ClusteredText(sentences, labels, n_clusters, 0)),
                      important_terms)
        ELSE AnalysisReturned({"sent_tokenize", "stopwords", "fit_transform", "ranking"},
                              stop_failed, sentences, t, important_terms)

\* main, line 251: organized_text, important_terms = analyze_with_tfidf(text)
Analyze ==
    /\ ing_pc = "analyze"
    /\ \E returns \in SUBSET AnalysisSteps, features \in FeatureLists,
          labels \in KMeansLabels(Len(sent_tokenize(text)), DefaultClusters) :
         /\ analysis' = analyze_with_tfidf(text, DefaultClusters, returns, features, labels)
         /\ ing_pc' = IF analysis'.raised THEN "crashed" ELSE "chunk"
    /\ UNCHANGED <<ing_env, ocr, text_content, text, chunks, documents, embedded,
                   vectorstore_dir>>
    /\ UNCHANGED <<serverVars, loaderVars>>

\* ------------------------------------------------------------ smart chunker
\* `important_terms[:20]`
ScoredTerms == 20

\* license_keywords of line 205
LicenseKeywords == <<
    <<"l", "i", "c", "e", "n", "s", "e">>,
    <<"l", "i", "c", "e", "n", "c", "e">>,
    <<"g", "1">>,
    <<"g", "2">>,
    <<"t", "e", "s", "t">>,
    <<"d", "r", "i", "v", "e">>,
    <<"p", "e", "r", "m", "i", "t">>,
    <<"o", "n", "t", "a", "r", "i", "o">>,
    <<"m", "i", "n", "i", "s", "t", "r", "y">>,
    <<"t", "r", "a", "n", "s", "p", "o", "r", "t">> >>

\* the terms of the contains_license_terms flag, line 222
LicenseTerms == <<<<"l", "i", "c", "e", "n", "s", "e">>,
                  <<"l", "i", "c", "e", "n", "c", "e">>,
                  <<"g", "1">>,
                  <<"g", "2">>>>

\* how many of items[i..] occur in chunk_lower; the terms are lower-cased first
RECURSIVE TermHits(_, _, _)
TermHits(chunk_lower, items, i) ==
    IF i > Len(items) THEN 0
    ELSE (IF Contains(chunk_lower, Lower(items[i])) THEN 1 ELSE 0)
            + TermHits(chunk_lower, items, i + 1)

\* how many of items[i..] occur in chunk_lower, taken as they are
RECURSIVE KeywordHits(_, _, _)
KeywordHits(chunk_lower, items, i) ==
    IF i > Len(items) THEN 0
    ELSE (IF Contains(chunk_lower, items[i]) THEN 1 ELSE 0)
            + KeywordHits(chunk_lower, items, i + 1)

\* a score that counts every term and every keyword once
importance_score_flat(chunk, important_terms) ==
    TermHits(Lower(chunk), important_terms, 1) + KeywordHits(Lower(chunk), LicenseKeywords, 1)

\* lines 196-208: +1 per top-20 term, +2 per license keyword
importance_score(chunk, important_terms) ==
    TermHits(Lower(chunk), FirstN(important_terms, ScoredTerms), 1)
        + 2 * KeywordHits(Lower(chunk), LicenseKeywords, 1)

\* the loop of lines 192-210: blank chunks are skipped, the others scored
RECURSIVE ScoredChunks(_, _)
ScoredChunks(split, important_terms) ==
    IF split = <<>> THEN <<>>
    ELSE (IF ~Truthy(Strip(Head(split))) THEN <<>>
          ELSE << [chunk |-> Head(split),
                   score |-> importance_score(Head(split), important_terms)] >>)
            \o ScoredChunks(Tail(split), important_terms)

\* x put behind every entry that scores at least as high
RECURSIVE InsertByScore(_, _)
InsertByScore(sorted, x) ==
    IF sorted = <<>> THEN <<x>>
    ELSE IF Head(sorted).score >= x.score
    THEN <<Head(sorted)>> \o InsertByScore(Tail(sorted), x)
    ELSE <<x>> \o sorted

\* the scored chunks left in the order of the split
SortByScoreSkipped(scored) == scored

\* scored_chunks.sort(key=lambda x: x[1], reverse=True): stable, highest first
RECURSIVE SortByScore(_)
SortByScore(scored) ==
    IF scored = <<>> THEN <<>>
    ELSE InsertByScore(SortByScore(SubSeq(scored, 1, Len(scored) - 1)),
                       scored[Len(scored)])

\* lines 216-224: one Document per scored chunk, with its metadata
Documents(sorted) ==
    [i \in DOMAIN sorted |->
        [page_content |-> sorted[i].chunk,
         metadata |->
            [importance_score |-> sorted[i].score,
             chunk_index |-> i - 1,
             contains_license_terms |->
                \E k \in DOMAIN LicenseTerms :
                    Contains(Lower(sorted[i].chunk), LicenseTerms[k])]]]

\* create_smart_chunks, from the result of splitter.split_text on
create_smart_chunks(split, important_terms) ==
    Documents(SortByScore(ScoredChunks(split, important_terms)))

\* chunks RecursiveCharacterTextSplitter hands back, in the order of the text
ChunkPool == <<
    <<"z", "z">>,
    <<"d", "r", "i", "v", "e", " ", "a", "u">>,
    <<" ", " ", "\n">>,
    <<"G", "1", " ", "t", "e", "s", "t", " ", "a", "a">>,
    <<"p", "e", "r", "m", "i", "t">>,
    <<"L", "i", "c", "e", "n", "c", "e", " ", "a", "b", " ", "a", "c">> >>

\* splitter.split_text(text): n chunks of the pool from one place on
SplitAt(first, n) == [i \in 1..n |-> ChunkPool[((first + i - 2) % Len(ChunkPool)) + 1]]

SplitTexts == {SplitAt(first, n) : first \in DOMAIN ChunkPool, n \in 1..MaxSplit}

\* main, line 260: documents = create_smart_chunks(organized_text, important_terms)
Chunk ==
    /\ ing_pc = "chunk"
    /\ \E split \in SplitTexts :
         /\ chunks' = split
         /\ documents' = create_smart_chunks(split, analysis.important_terms)
    /\ ing_pc' = "embed"
    /\ UNCHANGED <<ing_env, ocr, text_content, text, analysis, embedded,
                   vectorstore_dir>>
    /\ UNCHANGED <<serverVars, loaderVars>>

\* main, line 271: FAISS.from_documents embeds every document or raises
Embed ==
    /\ ing_pc = "embed"
    /\ \/ /\ documents # <<>>
          /\ embedded' = Len(documents)
          /\ ing_pc' = "save"
       \/ /\ ing_pc' = "crashed"
          /\ UNCHANGED embedded
    /\ UNCHANGED <<ing_env, ocr, text_content, text, analysis, chunks, documents,
                   vectorstore_dir>>
    /\ UNCHANGED <<serverVars, loaderVars>>

\* main, line 274: vectorstore.save_local("vectorstore")
Save ==
    /\ ing_pc = "save"
    /\ vectorstore_dir' = "rebuilt"
    /\ ing_pc' = "saved"
    /\ UNCHANGED <<ing_env, ocr, text_content, text, analysis, chunks, documents,
                   embedded>>
    /\ UNCHANGED <<serverVars, loaderVars>>

IngestNext ==
    \/ StartMain
    \/ OcrPage
    \/ ReturnFullText
    \/ CheckText
    \/ Analyze
    \/ Chunk
    \/ Embed
    \/ Save

SpecIngest == IngestInit /\ [][IngestNext]_vars

\* ------------------------------------------- analyze_with_tfidf on its own
\* a cluster count above the default, for texts with fewer sentences than
\* clusters
ManyClusters == 14

ClusterCounts == {DefaultClusters, ManyClusters}

\* texts as extract_text_with_ocr returns them: up to MaxPages retained pages
AnalyzedTexts ==
    LET pages == {CleanText(PageLicense), CleanText(PageSigns)}
    IN  {FullText(run) : run \in UNION {[1..n -> pages] : n \in 1..MaxPages}}

\* a call analyze_with_tfidf(text, n_clusters); ing_env holds n_clusters and
\* what the libraries do during the call
AnalyzeInit ==
    /\ ServerIdle("stopped")
    /\ LoaderOff
    /\ ing_pc = "call"
    /\ text \in AnalyzedTexts
    /\ \E n_clusters \in ClusterCounts,
          returns \in {AnalysisSteps, AnalysisSteps \ {"kmeans"}} :
          \E labels \in KMeansLabels(Len(sent_tokenize(text)), n_clusters) :
             ing_env = [n_clusters |-> n_clusters, returns |-> returns,
                        features |-> RankedFeatures(TopTerms + 1), labels |-> labels]
    /\ ocr = <<>>
    /\ text_content = <<>>
    /\ analysis = NoResult
    /\ chunks = <<>>
    /\ documents = <<>>
    /\ embedded = 0
    /\ vectorstore_dir = "previous"

\* the call returns (or raises)
CallAnalyze ==
    /\ ing_pc = "call"
    /\ analysis' = analyze_with_tfidf(text, ing_env.n_clusters, ing_env.returns,
                                      ing_env.features, ing_env.labels)
    /\ ing_pc' = "returned"
    /\ UNCHANGED <<ing_env, ocr, text_content, text, chunks, documents, embedded,
                   vectorstore_dir>>
    /\ UNCHANGED <<serverVars, loaderVars>>

SpecAnalyze == AnalyzeInit /\ [][CallAnalyze]_vars

\* ===================================================================
\* The component loader: RAGComponents of ask-mto-genai/app/main.py
\* ===================================================================
Threads == 1..MaxThreads

\* RAGComponents.__init__: the three attributes are None
Unloaded == [retriever |-> FALSE, qa_chain |-> FALSE, fallback_chain |-> FALSE]

\* every attribute of the object is set
Loaded(c) == c.retriever /\ c.qa_chain /\ c.fallback_chain

\* a test that sends every caller to the loading branch
NotLoadedAlways(inst) == TRUE

\* `if not cls._instance`, lines 91 and 93
NotLoaded(inst) == inst = 0

\* a failed load has left its object behind: nobody is loading, and the class
\* attribute holds an object with unset attributes
LoadFailed == instance # 0 /\ lock = 0 /\ ~Loaded(components[instance])

\* the thread has not called get_instance yet
NoCall == [calls |-> 0, after_failed_load |-> FALSE, outcome |-> NoResult]

\* `return cls._instance`: the object and its attributes as the caller gets them
InstanceReturned(inst, c) == [kind |-> "returned", instance |-> inst, components |-> c]

\* the exception of _load_components reaches the caller of get_instance
LoadRaised(step) == [kind |-> "raised", error |-> step]

LoadInit ==
    /\ ServerIdle("running")
    /\ IngestOff
    /\ instance = 0
    /\ lock = 0
    /\ components = <<>>
    /\ load_calls = 0
    /\ tpc = [t \in Threads |-> "idle"]
    /\ tres = [t \in Threads |-> NoCall]

\* a request handler on thread t calls RAGComponents.get_instance(), line 205
CallGetInstance(t) ==
    /\ tpc[t] = "idle"
    /\ tres[t].calls < MaxCalls
    /\ tres' = [tres EXCEPT ![t] = [calls |-> tres[t].calls + 1,
                                    after_failed_load |-> LoadFailed,
                                    outcome |-> NoResult]]
    /\ tpc' = [tpc EXCEPT ![t] = "check"]
    /\ UNCHANGED <<instance, lock, components, load_calls>>
    /\ UNCHANGED <<serverVars, ingestVars>>

\* line 91: the test made without the lock
FirstCheck(t) ==
    /\ tpc[t] = "check"
    /\ tpc' = [tpc EXCEPT ![t] = IF NotLoaded(instance) THEN "acquire" ELSE "return"]
    /\ UNCHANGED <<instance, lock, components, load_calls, tres>>
    /\ UNCHANGED <<serverVars, ingestVars>>

\* line 92: `with cls._lock` is entered once the lock is free
Acquire(t) ==
    /\ tpc[t] = "acquire"
    /\ lock = 0
    /\ lock' = t
    /\ tpc' = [tpc EXCEPT ![t] = "locked"]
    /\ UNCHANGED <<instance, components, load_calls, tres>>
    /\ UNCHANGED <<serverVars, ingestVars>>

\* lines 93-97: the test under the lock; `cls._instance = cls()` publishes the
\* new object, then _load_components is entered
SecondCheck(t) ==
    /\ tpc[t] = "locked"
    /\ IF NotLoaded(instance)
       THEN /\ components' = Append(components, Unloaded)
            /\ instance' = Len(components) + 1
            /\ load_calls' = load_calls + 1
            /\ tpc' = [tpc EXCEPT ![t] = "load_retriever"]
            /\ UNCHANGED lock
       ELSE /\ lock' = 0
            /\ tpc' = [tpc EXCEPT ![t] = "return"]
            /\ UNCHANGED <<instance, components, load_calls>>
    /\ UNCHANGED tres
    /\ UNCHANGED <<serverVars, ingestVars>>

\* the except of lines 160-163 re-raises: the with block releases the lock and
\* get_instance is left by the exception
FailLoad(t, step) ==
    /\ lock' = 0
    /\ tres' = [tres EXCEPT ![t].outcome = LoadRaised(step)]
    /\ tpc' = [tpc EXCEPT ![t] = "idle"]
    /\ UNCHANGED components

\* lines 104-114: the vector store is found and loaded, or FileNotFoundError
LoadRetriever(t) ==
    /\ tpc[t] = "load_retriever"
    /\ \/ /\ components' = [components EXCEPT ![instance].retriever = TRUE]
          /\ tpc' = [tpc EXCEPT ![t] = "load_qa_chain"]
          /\ UNCHANGED <<lock, tres>>
       \/ FailLoad(t, "vectorstore")
    /\ UNCHANGED <<instance, load_calls>>
    /\ UNCHANGED <<serverVars, ingestVars>>

\* lines 121-140: the prompt template is read and the RetrievalQA chain built
LoadQaChain(t) ==
    /\ tpc[t] = "load_qa_chain"
    /\ \/ /\ components' = [components EXCEPT ![instance].qa_chain = TRUE]
          /\ tpc' = [tpc EXCEPT ![t] = "load_fallback_chain"]
          /\ UNCHANGED <<lock, tres>>
       \/ FailLoad(t, "prompt")
    /\ UNCHANGED <<instance, load_calls>>
    /\ UNCHANGED <<serverVars, ingestVars>>

\* lines 142-159 and 98-99: the fallback chain is built, the load is logged
\* and the with block is left
LoadFallbackChain(t) ==
    /\ tpc[t] = "load_fallback_chain"
    /\ \/ /\ components' = [components EXCEPT ![instance].fallback_chain = TRUE]
          /\ lock' = 0
          /\ tpc' = [tpc EXCEPT ![t] = "return"]
          /\ UNCHANGED tres
       \/ FailLoad(t, "fallback_chain")
    /\ UNCHANGED <<instance, load_calls>>
    /\ UNCHANGED <<serverVars, ingestVars>>

\* line 100: `return cls._instance`
ReturnInstance(t) ==
    /\ tpc[t] = "return"
    /\ tres' = [tres EXCEPT ![t].outcome = InstanceReturned(instance, components[instance])]
    /\ tpc' = [tpc EXCEPT ![t] = "idle"]
    /\ UNCHANGED <<instance, lock, components, load_calls>>
    /\ UNCHANGED <<serverVars, ingestVars>>

LoadNext ==
    \/ \E t \in Threads : CallGetInstance(t)
    \/ \E t \in Threads : FirstCheck(t)
    \/ \E t \in Threads : Acquire(t)
    \/ \E t \in Threads : SecondCheck(t)
    \/ \E t \in Threads : LoadRetriever(t)
    \/ \E t \in Threads : LoadQaChain(t)
    \/ \E t \in Threads : LoadFallbackChain(t)
    \/ \E t \in Threads : ReturnInstance(t)

SpecLoad == LoadInit /\ [][LoadNext]_vars

\* ===================================================================
\* Properties
\* ===================================================================
\* the handler of c has returned a dict to the caller
Responded(c) == pc[c] = "done" /\ req[c].outcome.kind = "response"

\* the dict is the one of the normal return, not the one of the except block
IsAnswerBody(b) == "answer" \in DOMAIN b /\ "error" \notin DOMAIN b

\* the handler of c has returned its answer response
Answered(c) == Responded(c) /\ IsAnswerBody(req[c].outcome.body)

\* the rewrite as the specification writes it, with line feeds
SpecifiedQuery(ctx, q) ==
    IF HasFollowupPhrase(q) /\ ctx.last_question # <<>> /\ ctx.last_answer # <<>>
    THEN PrevQuestionLabel \o ctx.last_question
            \o <<"\n">> \o <<"P","r","e","v","i","o","u","s"," ","a","n","s","w","e","r",":"," ">>
            \o ctx.last_answer
            \o <<"\n">> \o <<"F","o","l","l","o","w","-","u","p"," ","q","u","e","s","t","i","o","n",":"," ">>
            \o q
    ELSE q

\* C1: the query sent to the primary chain is the three-line rewrite (joined by
\* line feeds) exactly when the question has a follow-up phrase and a non-empty
\* prior context exists, and the original question otherwise.
C1_QueryAsSpecified ==
    \A c \in Handlers :
        pc[c] = "primary" =>
            req[c].enhanced_question = SpecifiedQuery(conversation_context, req[c].question)

Digits == {"0","1","2","3","4","5","6","7","8","9"}

\* lower-cased with all whitespace, punctuation and underscores stripped
SpecifiedNormalize(a) ==
    LET IsWord(ch) == ch \in Range(LowerCase) \cup Digits
    IN  SelectSeq(Lower(a), IsWord)

SpecifiedMiss(a) ==
    Contains(SpecifiedNormalize(a), IDontKnow) \/ SpecifiedNormalize(a) = <<>>

\* C2: when the primary answer, lower-cased and stripped of whitespace,
\* punctuation and underscores, contains "idontknow" or is empty, the answer
\* returned is the fallback chain's output, never the primary chain's.
C2_DontKnowAnswersFallBack ==
    \A c \in Handlers :
        (Answered(c) /\ SpecifiedMiss(req[c].result)) =>
            /\ req[c].fallback_called
            /\ req[c].answer = Strip(req[c].fallback_result)

\* C3: in every answer response, sources has at most 3 entries and is the
\* page_content of the first min(3, n) documents the primary chain retrieved,
\* in retrieval order, also when the fallback chain produced the answer.
C3_SourcesAreTopThree ==
    \A c \in Handlers :
        Answered(c) =>
            LET sources == req[c].outcome.body.sources
                docs == req[c].docs
            IN  /\ Len(sources) <= 3
                /\ Len(sources) = Min(3, Len(docs))
                /\ \A i \in 1..Len(sources) : sources[i] = docs[i].page_content

C3_Witness ==
    \E c \in Handlers :
        /\ Answered(c)
        /\ req[c].fallback_called
        /\ Len(req[c].docs) > 3
        /\ Len(req[c].outcome.body.sources) = 3

\* C4: after a request that produced an answer, the context is exactly the
\* original question and the answer returned, with or without rewrite and
\* fallback; the slot holds one turn and never a rewritten query.
C4_ContextIsLastTurn ==
    /\ conversation_context.last_question \in Questions \cup {<<>>}
    /\ \A c \in Handlers :
          Answered(c) =>
              conversation_context =
                  [last_question |-> req[c].question,
                   last_answer |-> req[c].outcome.body.answer]

C4_Witness ==
    \E c \in Handlers :
        /\ Answered(c)
        /\ req[c].enhanced_question # req[c].question
        /\ req[c].fallback_called
        /\ req[c].outcome.body.answer # <<>>

\* C5: the request that follows a completed /clear-context sends its original
\* question to the primary chain, whatever came before the clear.
C5_NoRewriteAfterClear ==
    \A c \in Handlers :
        (pc[c] = "primary" /\ last_handled = "/clear-context") =>
            req[c].enhanced_question = req[c].question

C5_Witness ==
    \E c \in Handlers :
        /\ pc[c] = "primary"
        /\ last_handled = "/clear-context"
        /\ uuid_count >= 1
        /\ HasFollowupPhrase(req[c].question)
        /\ req[c].enhanced_question = req[c].question

\* C6: a failed session-store write does not propagate: store_session returns
\* False, the context holds the turn, and the request returns its answer and
\* sources.
C6_StoreFailureIsSwallowed ==
    \A c \in Handlers :
        /\ pc[c] = "track" =>
              /\ req[c].store_result \in {[returned |-> TRUE], [returned |-> FALSE]}
              /\ req[c].upserted = NoResult => req[c].store_result = [returned |-> FALSE]
              /\ conversation_context =
                    [last_question |-> req[c].question, last_answer |-> FinalAnswer(req[c])]
        /\ (pc[c] = "done" /\ req[c].outcome.kind = "exception") =>
              req[c].outcome.error # "store_session"
        /\ (Responded(c) /\ ~IsAnswerBody(req[c].outcome.body)) =>
              req[c].outcome.body.error # "store_session"
        /\ (Answered(c) /\ req[c].upserted = NoResult) =>
              /\ req[c].store_result = [returned |-> FALSE]
              /\ req[c].outcome.body.answer = FinalAnswer(req[c])
              /\ req[c].outcome.body.sources = Sources(req[c].docs)

C6_Witness ==
    \E c \in Handlers :
        /\ Answered(c)
        /\ container = "ContainerProxy"
        /\ req[c].store_result = [returned |-> FALSE]
        /\ req[c].upserted = NoResult

TelemetryCalls == {"track_rag_performance", "log_info"}

\* C7: a failing telemetry call never aborts the request: no request ends in
\* an exception or an error response caused by track_rag_performance or by the
\* wrapper's logging.
C7_TelemetryFailureKeepsResponse ==
    \A c \in Handlers :
        pc[c] = "done" =>
            /\ req[c].outcome.kind = "exception" => req[c].outcome.error \notin TelemetryCalls
            /\ (Responded(c) /\ ~IsAnswerBody(req[c].outcome.body)) =>
                  req[c].outcome.body.error \notin TelemetryCalls

\* C8: every response of POST /ask-enhanced carries answer, sources,
\* followup_questions, enhanced and session_id.
C8_EnhancedResponseFields ==
    \A c \in Handlers :
        (Responded(c) /\ req[c].endpoint = "/ask-enhanced") =>
            {"answer", "sources", "followup_questions", "enhanced", "session_id"}
                \subseteq DOMAIN req[c].outcome.body

\* C9: in POST /ask-enhanced a failed enhancement leaves the base answer as the
\* final answer with enhanced = false, a failed suggestion gives no follow-up
\* questions, and neither failure turns the response into an error.
C9_EnhancementDegrades ==
    \A c \in Handlers :
        req[c].endpoint = "/ask-enhanced" =>
            /\ (req[c].enhancement_result # NoResult /\ ~req[c].enhancement_result.success) =>
                  req[c].final_answer = req[c].answer
            /\ Answered(c) =>
                  /\ ~req[c].enhancement_result.success =>
                        /\ req[c].outcome.body.answer = req[c].answer
                        /\ req[c].outcome.body.enhanced = FALSE
                        /\ req[c].outcome.body.sources = Sources(req[c].docs)
                  /\ ~req[c].followup_result.success =>
                        req[c].outcome.body.followup_questions = <<>>
            /\ (Responded(c) /\ ~IsAnswerBody(req[c].outcome.body)) =>
                  req[c].outcome.body.error \notin {"enhance_answer", "suggest_followups"}
            /\ (pc[c] = "done" /\ req[c].outcome.kind = "exception") =>
                  req[c].outcome.error \notin {"enhance_answer", "suggest_followups"}

C9_Witness ==
    \E c \in Handlers :
        /\ Answered(c)
        /\ req[c].endpoint = "/ask-enhanced"
        /\ ~req[c].enhancement_result.success
        /\ ~req[c].followup_result.success
        /\ req[c].answer # <<>>
        /\ req[c].docs # <<>>

\* C10: without the session-store endpoint or credentials the service still
\* starts; session storage is skipped instead of the service failing.
C10_StartsWithoutSessionStore ==
    ~(env.COSMOS_ENDPOINT /\ env.COSMOS_KEY) => service # "failed"

\* ------------------------------------------------------ ingestion claims
\* extract_text_with_ocr has returned from its page loop
ExtractionDone ==
    /\ ing_pc \in {"extracted", "exit1"}
    /\ ing_env.OPENAI_API_KEY /\ ing_env.pdf_exists /\ ing_env.renders

\* page i of the OCR log was recognised and its cleaned text is long enough
ReadablePage(i) == ~ocr[i].raised /\ Len(ocr[i].text) > MinTextLength

\* the cleaned texts of the readable pages, in page order
ReadableTexts ==
    LET pages == SelectSeq([i \in DOMAIN ocr |-> i], ReadablePage)
    IN  [k \in DOMAIN pages |-> ocr[pages[k]].text]

NoRetainableText ==
    \/ ~ing_env.renders
    \/ ing_pc \in {"extracted", "exit1"} /\ \A i \in DOMAIN ocr : ~ReadablePage(i)
    \/ text = <<>>

\* C12: when the PDF cannot be rendered or no page yields retainable text,
\* the run stops at main's check with exit status 1: nothing is analysed,
\* chunked or embedded and the persisted index stays as it was.
C12_UnreadablePdfAborts ==
    (/\ ing_env.OPENAI_API_KEY /\ ing_env.pdf_exists
     /\ ing_pc \notin {"off", "start", "pages"}
     /\ NoRetainableText)
        => /\ ing_pc \in {"extracted", "exit1"}
           /\ analysis = NoResult
           /\ chunks = <<>> /\ documents = <<>>
           /\ embedded = 0
           /\ vectorstore_dir = "previous"

\* the PDF did not render and the run has exited
C12_Witness ==
    /\ ing_env.OPENAI_API_KEY /\ ing_env.pdf_exists /\ ~ing_env.renders
    /\ ing_pc = "exit1"
    /\ embedded = 0
    /\ vectorstore_dir = "previous"

\* C13: whenever a step of analyze_with_tfidf fails (sentence segmentation,
\* stopword loading, vectorisation, term ranking, clustering), the call
\* returns the original text and an empty term list and does not raise.
C13_AnalysisNeverAborts ==
    (analysis # NoResult /\ analysis.failed # {})
        => /\ ~analysis.raised
           /\ analysis.organized_text = text
           /\ analysis.important_terms = <<>>

\* C14: a text of fewer than MinSentences sentences is returned as it is with
\* an empty term list, and no stopword, TF-IDF or clustering step is run.
C14_FewSentencesSkipAnalysis ==
    (analysis # NoResult /\ ~analysis.raised /\ analysis.sentences < MinSentences)
        => /\ analysis.calls = {"sent_tokenize"}
           /\ analysis.organized_text = text
           /\ analysis.important_terms = <<>>

\* a readable text of one to nine sentences went through the analysis
C14_Witness ==
    /\ analysis # NoResult /\ ~analysis.raised
    /\ analysis.sentences \in 1..(MinSentences - 1)
    /\ analysis.organized_text = text

\* create_smart_chunks has returned
ChunkingDone == chunks # <<>>

\* the score the chunker is specified to give a chunk
SpecifiedScore(chunk, terms) ==
    Cardinality({i \in 1..Min(ScoredTerms, Len(terms)) :
                    Contains(Lower(chunk), Lower(terms[i]))})
        + 2 * Cardinality({k \in DOMAIN LicenseKeywords :
                              Contains(Lower(chunk), LicenseKeywords[k])})

NonBlank(chunk) == \E i \in DOMAIN chunk : chunk[i] \notin Whitespace

\* C15: the documents are the non-blank chunks of the split, each scored with
\* the number of the first 20 important terms it contains (ignoring case)
\* plus twice the number of license keywords its lower-cased text contains.
C15_ImportanceScore ==
    ChunkingDone =>
        /\ \A d \in DOMAIN documents :
              /\ NonBlank(documents[d].page_content)
              /\ documents[d].metadata.importance_score =
                    SpecifiedScore(documents[d].page_content, analysis.important_terms)
        /\ \A c \in DOMAIN chunks :
              NonBlank(chunks[c]) <=>
                  \E d \in DOMAIN documents : documents[d].page_content = chunks[c]
        /\ Len(documents) = Cardinality({c \in DOMAIN chunks : NonBlank(chunks[c])})

\* a blank chunk was split off, and a chunk containing the 21st term and one
\* keyword scored 2 while a chunk with a top term and two keywords scored 5
C15_Witness ==
    /\ ChunkingDone
    /\ Len(analysis.important_terms) > ScoredTerms
    /\ \E c \in DOMAIN chunks : ~NonBlank(chunks[c])
    /\ \E d, e \in DOMAIN documents :
         /\ Contains(documents[d].page_content, analysis.important_terms[ScoredTerms + 1])
         /\ documents[d].metadata.importance_score = 2
         /\ documents[e].metadata.importance_score = 5

\* C16: the documents come highest score first, and each carries exactly the
\* importance score, its position in that order and the flag that is true
\* exactly when its text contains license, licence, g1 or g2.
C16_DocumentsOrderedWithMetadata ==
    ChunkingDone =>
        /\ \A i, j \in DOMAIN documents :
              i < j => documents[i].metadata.importance_score
                          >= documents[j].metadata.importance_score
        /\ \A i \in DOMAIN documents :
              /\ DOMAIN documents[i].metadata =
                    {"importance_score", "chunk_index", "contains_license_terms"}
              /\ documents[i].metadata.chunk_index = i - 1
              /\ documents[i].metadata.contains_license_terms <=>
                    \E term \in {LicenseTerms[k] : k \in 1..4} :
                        Contains(Lower(documents[i].page_content), term)

\* the split came lowest score first and holds chunks with and without a
\* license term
C16_Witness ==
    /\ ChunkingDone
    /\ Len(documents) >= 2
    /\ NonBlank(chunks[1])
    /\ documents[1].page_content # chunks[1]
    /\ documents[1].metadata.contains_license_terms
    /\ ~documents[Len(documents)].metadata.contains_license_terms

\* --------------------------------------------------------- loader claims
\* the current get_instance call of thread t has returned an object
GotInstance(t) == tres[t].outcome # NoResult /\ tres[t].outcome.kind = "returned"

\* C18: however the calls of the threads interleave, _load_components is
\* entered at most once, one object is created, and every call that returns
\* returns that object.
C18_LoadsAtMostOnce ==
    /\ load_calls <= 1
    /\ Len(components) <= 1
    /\ \A t \in Threads : GotInstance(t) => tres[t].outcome.instance = instance
    /\ \A t, u \in Threads :
          GotInstance(t) /\ GotInstance(u)
              => tres[t].outcome.instance = tres[u].outcome.instance

\* two first calls overlapped: one has loaded and returned the object, the
\* other passed the unlocked test before and now holds the lock
C18_Witness ==
    \E t, u \in Threads :
        /\ t # u
        /\ GotInstance(t) /\ Loaded(tres[t].outcome.components)
        /\ tres[u].calls = 1 /\ tpc[u] = "locked"
        /\ load_calls = 1

\* C19: get_instance never returns an object whose retriever, qa_chain or
\* fallback_chain is unset: callers arriving during the first load wait.
C19_CallersWaitForLoad ==
    \A t \in Threads : GotInstance(t) => Loaded(tres[t].outcome.components)

\* C20: after a failed load no get_instance call returns the object the
\* failed load left behind.
C20_FailedLoadIsFatal ==
    \A t \in Threads :
        (GotInstance(t) /\ tres[t].after_failed_load)
            => Loaded(tres[t].outcome.components)

\* -------------------------------------------------- semantic memory claims
\* ask_question_enhanced is past `await sk_instance.store_conversation(...)`
ConversationStored(c) ==
    /\ req[c].endpoint = "/ask-enhanced"
    /\ pc[c] \in {"store", "track", "wrapper", "done"}
    /\ req[c].session_id # 0

\* C27: once store_conversation has returned on a kernel whose memory was set
\* up (self.memory = {}), the memory holds an entry with the question, the
\* answer and the session id it was given
C27_StoreConversationStores ==
    \A c \in Handlers :
        ConversationStored(c) =>
            [question |-> req[c].question, answer |-> req[c].final_answer,
             session_id |-> req[c].session_id] \in sk_memory

\* ------------------------------------------------------- fallback claims
\* the primary chain of c's request has returned
PrimaryReturned(c) == pc[c] \notin {"idle", "primary"} /\ req[c].result # <<>>

\* C28: when the primary answer, lower-cased and stripped of whitespace,
\* punctuation and underscores, is non-empty and does not contain "idontknow"
\* (the answer "s" included), the fallback chain is not called and the answer
\* of POST /ask is the primary chain's stripped output
C28_FallbackOnlyOnMiss ==
    \A c \in Handlers :
        /\ req[c].endpoint = "/ask"
        /\ PrimaryReturned(c)
        /\ ~SpecifiedMiss(Strip(req[c].result))
        => /\ req[c].chain_calls = <<"qa_chain">>
           /\ req[c].answer = Strip(req[c].result)

\* the chains a request may have invoked, in the order of the calls
ChainCalls == {<<>>, <<"qa_chain">>, <<"qa_chain", "fallback_chain">>}

\* C22: within one request the fallback chain is invoked at most once and its
\* (stripped) output is the final answer whatever it is: also when it is empty
\* or itself contains "idontknow" it is the answer returned and handed to the
\* session store, and no further chain is invoked
C22_FallbackIsFinal ==
    \A c \in Handlers :
        /\ req[c].chain_calls \in ChainCalls
        /\ req[c].fallback_called =>
              /\ req[c].chain_calls = <<"qa_chain", "fallback_chain">>
              /\ pc[c] \notin {"primary", "fallback"}
              /\ req[c].answer = Strip(req[c].fallback_result)
        /\ (req[c].fallback_called /\ req[c].endpoint = "/ask") =>
              /\ Answered(c) =>
                    req[c].outcome.body.answer = Strip(req[c].fallback_result)
              /\ req[c].upserted # NoResult =>
                    req[c].upserted.answer = Strip(req[c].fallback_result)

C22_Witness ==
    \E c \in Handlers :
        /\ Answered(c)
        /\ req[c].endpoint = "/ask"
        /\ req[c].fallback_result = IDontKnow
        /\ NeedsFallback(req[c].outcome.body.answer)
        /\ req[c].upserted # NoResult

\* ------------------------------------------------- order of the resolver
\* the turn of c's request as the context holds it once updated
Turn(r) == [last_question |-> r.question, last_answer |-> FinalAnswer(r)]

\* C23: in both handlers the context is updated only once the final answer is
\* resolved (in /ask-enhanced after enhancement and follow-up suggestion) and
\* before the question and answer are handed to the session store: when
\* store_session is called the context already holds the turn
C23_ContextUpdatedBeforeStore ==
    [][\A c \in Handlers :
        /\ (req[c].store_result = NoResult /\ req'[c].store_result # NoResult) =>
              conversation_context = Turn(req[c])
        /\ (conversation_context' # conversation_context
              /\ conversation_context' = Turn(req'[c])
              /\ req'[c].endpoint = "/ask-enhanced") =>
                 /\ req'[c].enhancement_result # NoResult
                 /\ req'[c].followup_result # NoResult]_vars

\* ------------------------------------------------ language-model failures
Chains == {"qa_chain", "fallback_chain"}

\* the step in which the chain that c's POST /ask request waits for raises
\* instead of returning
ChainRaises(c) ==
    /\ req[c].endpoint = "/ask"
    /\ pc[c] \in {"primary", "fallback"}
    /\ pc'[c] # pc[c]
    /\ pc[c] = "primary" => req'[c].result = <<>>
    /\ pc[c] = "fallback" => ~req'[c].fallback_called

\* C24: in POST /ask a raising primary or fallback chain is not handled: the
\* exception leaves the handler, the wrapper logs it and re-raises, and the
\* request ends in a server error without any response body
C24_ChainFailurePropagates ==
    [][\A c \in Handlers :
        ChainRaises(c) =>
            /\ pc'[c] = "done"
            /\ req'[c].outcome \in {Raised(call) : call \in Chains}
            /\ req'[c].logged = LogFailed
            /\ req'[c].body = NoResult
            /\ ~Responded(c)']_vars

C24_Witness ==
    \E c \in Handlers :
        /\ pc[c] = "done"
        /\ req[c].endpoint = "/ask"
        /\ req[c].outcome = Raised("fallback_chain")
        /\ req[c].chain_calls = <<"qa_chain", "fallback_chain">>

\* c's POST /ask request has ended because one of its chains raised
ChainFailed(c) ==
    /\ pc[c] = "done"
    /\ req[c].endpoint = "/ask"
    /\ req[c].outcome \in {Raised(call) : call \in Chains}

\* a step of c's request that a failing request can be made of: the request
\* is taken up, it goes on to the fallback chain, or one of its chains raises
StepBeforeAnswer(c) ==
    /\ pc'[c] # pc[c]
    /\ req'[c].endpoint = "/ask"
    /\ pc'[c] \in {"primary", "fallback"} \/ ChainFailed(c)'

\* C29: a POST /ask request that fails because the primary or the fallback
\* chain raises leaves the shared state untouched: none of its steps changes
\* the conversation context, and nothing of it has been handed to the session
\* store or to track_rag_performance
C29_FailedRequestLeavesNoTrace ==
    [][\A c \in Handlers :
        /\ StepBeforeAnswer(c) => conversation_context' = conversation_context
        /\ ChainFailed(c)' =>
              /\ req'[c].session_id = 0
              /\ req'[c].store_result = NoResult
              /\ req'[c].upserted = NoResult
              /\ req'[c].tracked = NoResult]_vars

C29_Witness ==
    \E c \in Handlers :
        /\ ChainFailed(c)
        /\ req[c].outcome = Raised("qa_chain")
        /\ Truthy(conversation_context.last_question)
        /\ conversation_context.last_question # req[c].question

\* ------------------------------------------------------------ termination
\* number of times `x` occurs in the sequence
Count(seq, x) == Cardinality({i \in DOMAIN seq : seq[i] = x})

\* the external calls of ask_question and of its wrapper that can raise
ExternalCalls == {"qa_chain", "fallback_chain", "track_rag_performance", "log_info"}

\* c's POST /ask request is over: a response, or the error of an external call
AskCompleted(c) ==
    /\ pc[c] = "done"
    /\ Responded(c) \/ req[c].outcome \in {Raised(call) : call \in ExternalCalls}
    /\ Count(req[c].chain_calls, "qa_chain") = 1

\* C25: no step is retried and nothing waits except on external calls: when
\* every external call comes back, every POST /ask request ends, with a
\* response unless one of the calls raised, after invoking the primary chain
\* exactly once
C25_AskRequestCompletes ==
    \A c \in Handlers :
        (pc[c] = "primary" /\ req[c].endpoint = "/ask") ~> AskCompleted(c)

C25_Witness ==
    \E c \in Handlers :
        /\ req[c].endpoint = "/ask"
        /\ Answered(c)
        /\ req[c].chain_calls = <<"qa_chain", "fallback_chain">>
        /\ req[c].store_result = [returned |-> FALSE]

\* ------------------------------------------------------ concurrency claims
\* C30: with requests interleaving only at external calls, the context is
\* never torn: every write leaves it empty or holding the original question
\* and the final answer of one and the same request
C30_ContextNeverTorn ==
    [][conversation_context' # conversation_context =>
          \/ conversation_context' = EmptyContext
          \/ \E c \in Handlers :
                /\ pc'[c] # pc[c]
                /\ req'[c].endpoint \in Endpoints
                /\ conversation_context' = Turn(req'[c])]_vars

C30_Witness ==
    \E c, d \in Handlers :
        /\ req[c].endpoint = "/ask"
        /\ req[d].endpoint = "/ask-enhanced"
        /\ pc[c] = "track"
        /\ pc[d] = "track"
        /\ Turn(req[c]).last_answer # Turn(req[d]).last_answer
        /\ conversation_context = Turn(req[d])

\* the request of handler a is past its context update and not yet delivered
TurnRecorded(a) ==
    /\ IF req[a].endpoint = "/ask"
       THEN pc[a] \in {"store", "track", "wrapper", "done"}
       ELSE req[a].endpoint = "/ask-enhanced" /\ pc[a] \in {"track", "wrapper", "done"}
    /\ req[a].body = NoResult \/ "error" \notin DOMAIN req[a].body

\* C21: the context is one slot for all clients: a follow-up question of
\* client B taken up while the slot holds the turn of client A's request is
\* rewritten with A's question and answer, a prior turn B never had
C21_RewrittenWithOtherClientsTurn ==
    [][\A a, b \in Handlers :
        /\ a # b
        /\ TurnRecorded(a)
        /\ conversation_context = Turn(req[a])
        /\ Truthy(req[a].question) /\ Truthy(FinalAnswer(req[a]))
        /\ pc[b] = "idle" /\ pc'[b] = "primary"
        /\ HasFollowupPhrase(req'[b].question)
        => req'[b].enhanced_question =
              PrevQuestionLabel \o req[a].question \o PrevAnswerLabel
                  \o FinalAnswer(req[a]) \o FollowupLabel \o req'[b].question]_vars

C21_Witness ==
    \E a, b \in Handlers :
        /\ a # b
        /\ received = 2
        /\ TurnRecorded(a)
        /\ pc[b] = "primary"
        /\ req[a].question # req[b].question
        /\ req[b].enhanced_question = RewrittenQuestion(Turn(req[a]), req[b].question)

\* ------------------------------------------------------- clustering claim
\* the sentences cluster by cluster in increasing cluster id, each cluster in
\* the original order and followed by an empty entry
GroupedByCluster(sentences, labels) ==
    LET idx == DOMAIN sentences
        used == {labels[i] : i \in idx}
        Before(i) == {j \in idx : labels[j] < labels[i] \/ (labels[j] = labels[i] /\ j < i)}
        Pos(i) == Cardinality(Before(i)) + Cardinality({l \in used : l < labels[i]}) + 1
    IN  [p \in 1..(Len(sentences) + Cardinality(used)) |->
            IF \E i \in idx : Pos(i) = p
            THEN sentences[CHOOSE i \in idx : Pos(i) = p]
            ELSE <<>>]

\* the call went through every step of the analysis without a failure
AnalysisRan ==
    /\ ing_pc = "returned"
    /\ ing_env.returns = AnalysisSteps
    /\ analysis.sentences >= MinSentences

\* C26: once the analysis runs, with at least as many sentences as clusters
\* the reordered text is the sentences cluster by cluster in increasing
\* cluster id, each sentence once and each cluster in the original order;
\* with fewer sentences than clusters it is the original text
C26_ClusterByCluster ==
    AnalysisRan =>
        LET sentences == sent_tokenize(text)
        IN  IF Len(sentences) >= ing_env.n_clusters
            THEN analysis.organized_text =
                    Join(<<"\n">>, GroupedByCluster(sentences, ing_env.labels))
            ELSE analysis.organized_text = text

C26_Witness ==
    /\ AnalysisRan
    /\ ing_env.n_clusters = DefaultClusters
    /\ analysis.sentences > DefaultClusters
    /\ Cardinality({ing_env.labels[i] : i \in DOMAIN ing_env.labels}) > 1
    /\ analysis.organized_text # text

====
